---- MODULE Spec2Model ----
(***************************************************************************)
(* Model of wordpress_manager.py: a command-line tool that materializes a  *)
(* per-site directory with two generated files, registers a hosts entry,   *)
(* and drives docker-compose up / down / delete for the site.              *)
(*                                                                         *)
(* One run of the program is one invocation: Main picks the arguments, the *)
(* following actions are the functions the dispatch calls, in program      *)
(* order.  The file system, the hosts file and the containers persist      *)
(* between invocations.  What the environment answers (exit status of a    *)
(* subprocess, whether an executable can be launched, whether the hosts    *)
(* file can be opened, whether the user is an administrator) is chosen     *)
(* nondeterministically where the code asks for it.                        *)
(***************************************************************************)
EXTENDS Naturals, Sequences, FiniteSets

\* Number of invocations of the program in one behaviour.
MaxRuns == 3

\* Site names given on the command line.
Sites == {"foo", "bar"}

\* argparse choices of the positional argument "action".
Actions == {"create", "enable", "disable", "delete"}

VARIABLES
    fs,        \* fs[s]: the directory named s: [exists, files]
    hosts,     \* the lines of the hosts file
    up,        \* up[s]: the containers of site s are running
    isWindows, \* platform.system() == "Windows"
    pc,        \* position of the running invocation, "idle" between runs
    site,      \* args.site_name of the current / last invocation
    action,    \* args.action of the current / last invocation
    log,       \* what the current / last invocation did, in order
    term,      \* how the current / last invocation ended
    runs,      \* invocations started so far
    hosts0,    \* the hosts file when the invocation started
    dir0,      \* fs[site] when the invocation started
    reached,   \* reached[s]: create calls for s that reached host registration
    appended,  \* appended[s]: create calls for s whose hosts append succeeded
    snap       \* snap[s]: the generated files after the first create of s

vars == <<fs, hosts, up, isWindows, pc, site, action, log, term, runs,
          hosts0, dir0, reached, appended, snap>>

----------------------------------------------------------------------------
\* Texts are sequences of tokens.

ComposeName == "docker-compose.yml"
NginxName == "nginx.conf"
WpContent == "wp-content"

\* The f-string written to docker-compose.yml: it has no replacement field.
ComposeText(site_name) ==
    << "version:", "'3'", "services:",
       "db:", "image:", "mysql:5.7",
       "wordpress:", "depends_on:", "db", "image:", "wordpress:latest",
       "volumes:", "./wp-content:/var/www/html/wp-content",
       "nginx:", "image:", "nginx:latest", "ports:", "80:80",
       "volumes:", "./nginx.conf:/etc/nginx/conf.d/default.conf:ro",
       "./wp-content:/var/www/html/wp-content",
       "volumes:", "db_data:" >>

\* Variant: the template written as a plain string, the field left as it is.
NginxText_NoSubst(site_name) ==
    << "server", "{", "listen", "80;",
       "server_name", "{site_name}", ";",
       "root", "/var/www/html;", "index", "index.php;",
       "location", "/", "{", "try_files", "}",
       "location", "~ \\.php$", "{",
       "include", "fastcgi_params;",
       "fastcgi_pass", "wordpress:9000;",
       "fastcgi_index", "index.php;", "}", "}" >>

\* The f-string written to nginx.conf: {site_name} follows server_name.
NginxText(site_name) ==
    << "server", "{", "listen", "80;",
       "server_name", site_name, ";",
       "root", "/var/www/html;", "index", "index.php;",
       "location", "/", "{", "try_files", "}",
       "location", "~ \\.php$", "{",
       "include", "fastcgi_params;",
       "fastcgi_pass", "wordpress:9000;",
       "fastcgi_index", "index.php;", "}", "}" >>

\* The line both host registrars write.
HostsLine(site_name) == <<"127.0.0.1", site_name>>

StaleText == <<"stale">>
NoFiles == [n \in {} |-> <<>>]
AbsentDir == [exists |-> FALSE, files |-> NoFiles]
EmptyDir == [exists |-> TRUE, files |-> NoFiles]
StaleDir == [exists |-> TRUE,
             files |-> [n \in {ComposeName, NginxName} |-> StaleText]]

\* Variant: the file opened in append mode.
WriteFile_Append(files, name, text) ==
    [n \in (DOMAIN files) \cup {name} |->
        IF n = name
        THEN (IF name \in DOMAIN files THEN files[name] \o text ELSE text)
        ELSE files[n]]

\* open(path, "w").write(text): creates or truncates, then writes.
WriteFile(files, name, text) ==
    [n \in (DOMAIN files) \cup {name} |-> IF n = name THEN text ELSE files[n]]

\* os.makedirs(name, exist_ok=True)
MakeDirs(d) == IF d.exists THEN d ELSE EmptyDir

Said(what, arg) == <<"print", what, arg>>
Ran(cmd, outcome) == <<"run", cmd, outcome>>
Did(what, arg) == <<"do", what, arg>>

Has(seq, e) == \E i \in 1..Len(seq) : seq[i] = e

RECURSIVE Count(_, _)
Count(seq, e) ==
    IF seq = <<>> THEN 0
    ELSE (IF Head(seq) = e THEN 1 ELSE 0) + Count(Tail(seq), e)

----------------------------------------------------------------------------
Init ==
    /\ fs \in [Sites -> {AbsentDir, EmptyDir, StaleDir}]
    /\ hosts = << <<"127.0.0.1", "localhost">> >>
    /\ up = [s \in Sites |-> FALSE]
    /\ isWindows \in BOOLEAN
    /\ pc = "idle"
    /\ site = "foo"
    /\ action = "create"
    /\ log = <<>>
    /\ term = "none"
    /\ runs = 0
    /\ hosts0 = hosts
    /\ dir0 = AbsentDir
    /\ reached = [s \in Sites |-> 0]
    /\ appended = [s \in Sites |-> 0]
    /\ snap = [s \in Sites |-> NoFiles]

\* The process ends: normally ("normal"), by sys.exit(1) ("exit1"), or by an
\* exception nobody catches ("uncaught").
End(how) == pc' = "idle" /\ term' = how

\* Variant: the dispatch sends enable through create's branch.
FirstStep_EnableAsCreate(a) ==
    CASE a = "create" -> "check_dependencies"
      [] a = "enable" -> "check_dependencies"
      [] a = "disable" -> "disable"
      [] a = "delete" -> "delete_down"

\* __main__: parse the arguments and dispatch on args.action.
FirstStep(a) ==
    CASE a = "create" -> "check_dependencies"
      [] a = "enable" -> "enable"
      [] a = "disable" -> "disable"
      [] a = "delete" -> "delete_down"

Main ==
    /\ pc = "idle"
    /\ runs < MaxRuns
    /\ \E s \in Sites, a \in Actions :
        /\ site' = s
        /\ action' = a
        /\ pc' = FirstStep(a)
        /\ dir0' = fs[s]
    /\ runs' = runs + 1
    /\ log' = <<>>
    /\ term' = "running"
    /\ hosts0' = hosts
    /\ UNCHANGED <<fs, hosts, up, isWindows, reached, appended, snap>>

Log(events) == log' = log \o events

\* What subprocess.run of a version query can give: exit 0, a non-zero exit
\* (CalledProcessError under check=True), or no executable to launch
\* (FileNotFoundError).
VersionOutcomes == {"ok", "nonzero", "missing"}

\* The first query that did not succeed decides how check_dependencies ends.
DependencyResult(r1, r2) == IF r1 # "ok" THEN r1 ELSE r2

DependencyLog(r1, r2) ==
    IF r1 # "ok"
    THEN <<Ran("docker --version", r1)>>
         \o (IF r1 = "nonzero" THEN <<Said("docker_not_installed", "")>> ELSE <<>>)
    ELSE <<Ran("docker --version", r1), Ran("docker-compose --version", r2)>>
         \o (IF r2 = "nonzero" THEN <<Said("compose_not_installed", "")>> ELSE <<>>)

\* check_dependencies(): only CalledProcessError is caught.
check_dependencies ==
    /\ pc = "check_dependencies"
    /\ \E r1, r2 \in VersionOutcomes :
        /\ Log(DependencyLog(r1, r2))
        /\ CASE DependencyResult(r1, r2) = "ok" -> pc' = "create" /\ term' = term
             [] DependencyResult(r1, r2) = "nonzero" -> End("exit1")
             [] DependencyResult(r1, r2) = "missing" -> End("uncaught")
    /\ UNCHANGED <<fs, hosts, up, isWindows, site, action, runs, hosts0, dir0,
                   reached, appended, snap>>

\* The site directory after makedirs and the two writes.
Materialized(d, site_name) ==
    [exists |-> TRUE,
     files |-> WriteFile(WriteFile(MakeDirs(d).files,
                                   ComposeName, ComposeText(site_name)),
                         NginxName, NginxText(site_name))]

Generated(d) ==
    [n \in {ComposeName, NginxName} \cap DOMAIN d.files |-> d.files[n]]

\* create_wordpress_site, up to the host entry: makedirs and the two writes.
create_wordpress_site ==
    /\ pc = "create"
    /\ fs' = [fs EXCEPT ![site] = Materialized(fs[site], site)]
    /\ Log(<<Did("makedirs", site), Did("write", ComposeName),
             Did("write", NginxName)>>)
    /\ snap' = [snap EXCEPT ![site] =
                  IF snap[site] = NoFiles THEN Generated(fs'[site]) ELSE @]
    /\ pc' = "host_entry"
    /\ UNCHANGED <<hosts, up, isWindows, site, action, term, runs, hosts0, dir0,
                   reached, appended>>

\* Variant: the line is skipped when the hosts file already holds it.
add_host_entry_unix_dedup ==
    /\ pc = "host_entry"
    /\ ~isWindows
    /\ reached' = [reached EXCEPT ![site] = @ + 1]
    /\ \E opened \in BOOLEAN :
        IF opened
        THEN /\ hosts' = IF Has(hosts, HostsLine(site)) THEN hosts
                         ELSE Append(hosts, HostsLine(site))
             /\ appended' = [appended EXCEPT ![site] = @ + 1]
             /\ Log(<<Did("hosts_append", site)>>)
             /\ pc' = "created"
             /\ term' = term
        ELSE /\ Log(<<Did("hosts_open_failed", site)>>)
             /\ End("uncaught")
             /\ UNCHANGED <<hosts, appended>>
    /\ UNCHANGED <<fs, up, isWindows, site, action, runs, hosts0, dir0, snap>>

\* Variant: the failure comes after the line went out to the file.
add_host_entry_unix_late_failure ==
    /\ pc = "host_entry"
    /\ ~isWindows
    /\ reached' = [reached EXCEPT ![site] = @ + 1]
    /\ hosts' = Append(hosts, HostsLine(site))
    /\ appended' = [appended EXCEPT ![site] = @ + 1]
    /\ \E closed \in BOOLEAN :
        IF closed
        THEN /\ Log(<<Did("hosts_append", site)>>)
             /\ pc' = "created"
             /\ term' = term
        ELSE /\ Log(<<Did("hosts_open_failed", site)>>)
             /\ End("uncaught")
    /\ UNCHANGED <<fs, up, isWindows, site, action, runs, hosts0, dir0, snap>>

\* add_host_entry_unix: the open in append mode may raise; nothing catches it.
add_host_entry_unix ==
    /\ pc = "host_entry"
    /\ ~isWindows
    /\ reached' = [reached EXCEPT ![site] = @ + 1]
    /\ \E opened \in BOOLEAN :
        IF opened
        THEN /\ hosts' = Append(hosts, HostsLine(site))
             /\ appended' = [appended EXCEPT ![site] = @ + 1]
             /\ Log(<<Did("hosts_append", site)>>)
             /\ pc' = "created"
             /\ term' = term
        ELSE /\ Log(<<Did("hosts_open_failed", site)>>)
             /\ End("uncaught")
             /\ UNCHANGED <<hosts, appended>>
    /\ UNCHANGED <<fs, up, isWindows, site, action, runs, hosts0, dir0, snap>>

\* Variant: no try / except around the registry lookup and the append.
add_host_entry_windows_no_try ==
    /\ pc = "host_entry"
    /\ isWindows
    /\ reached' = [reached EXCEPT ![site] = @ + 1]
    /\ \E admin \in BOOLEAN, ok \in BOOLEAN :
        IF ~admin
        THEN /\ Log(<<Did("not_admin", site), Said("needs_admin", "")>>)
             /\ End("exit1")
             /\ UNCHANGED <<hosts, appended>>
        ELSE IF ok
        THEN /\ hosts' = Append(hosts, HostsLine(site))
             /\ appended' = [appended EXCEPT ![site] = @ + 1]
             /\ Log(<<Did("hosts_append", site), Said("hosts_entry_added", "")>>)
             /\ pc' = "created"
             /\ term' = term
        ELSE /\ Log(<<Did("hosts_error_caught", site)>>)
             /\ End("uncaught")
             /\ UNCHANGED <<hosts, appended>>
    /\ UNCHANGED <<fs, up, isWindows, site, action, runs, hosts0, dir0, snap>>

\* add_host_entry_windows: exit without privileges; otherwise the registry
\* lookup and the append run inside try / except Exception.
add_host_entry_windows ==
    /\ pc = "host_entry"
    /\ isWindows
    /\ reached' = [reached EXCEPT ![site] = @ + 1]
    /\ \E admin \in BOOLEAN, ok \in BOOLEAN :
        IF ~admin
        THEN /\ Log(<<Did("not_admin", site), Said("needs_admin", "")>>)
             /\ End("exit1")
             /\ UNCHANGED <<hosts, appended>>
        ELSE IF ok
        THEN /\ hosts' = Append(hosts, HostsLine(site))
             /\ appended' = [appended EXCEPT ![site] = @ + 1]
             /\ Log(<<Did("hosts_append", site), Said("hosts_entry_added", "")>>)
             /\ pc' = "created"
             /\ term' = term
        ELSE /\ Log(<<Did("hosts_error_caught", site), Said("error", "")>>)
             /\ pc' = "created"
             /\ term' = term
             /\ UNCHANGED <<hosts, appended>>
    /\ UNCHANGED <<fs, up, isWindows, site, action, runs, hosts0, dir0, snap>>

\* The end of create_wordpress_site: the success messages and the browser.
create_finish ==
    /\ pc = "created"
    /\ Log(<<Said("created", site), Said("please_wait", ""),
             Said("opening_browser", ""), Did("browser", site)>>)
    /\ pc' = "main_create_tail"
    /\ UNCHANGED <<fs, hosts, up, isWindows, site, action, term, runs, hosts0,
                   dir0, reached, appended, snap>>

\* __main__ after create_wordpress_site returns: the messages and the browser
\* once more.
main_create_tail ==
    /\ pc = "main_create_tail"
    /\ Log(<<Said("please_wait", ""), Said("opening_browser", ""),
             Did("browser", site)>>)
    /\ End("normal")
    /\ UNCHANGED <<fs, hosts, up, isWindows, site, action, runs, hosts0, dir0,
                   reached, appended, snap>>

\* What subprocess.run(['docker-compose', ...], cwd=d) can give, without
\* check=True: FileNotFoundError when the working directory is missing or the
\* executable cannot be launched; otherwise an exit status, which is non-zero
\* when the directory holds no docker-compose.yml.
ComposeOutcomes(d) ==
    IF ~d.exists THEN {"no_cwd"}
    ELSE {"no_exe", "nonzero"}
         \cup (IF ComposeName \in DOMAIN d.files THEN {"zero"} ELSE {})

Raised(r) == r \in {"no_cwd", "no_exe"}

\* docker-compose up creates the bind-mount source ./wp-content on the host.
AfterUp(d) == [d EXCEPT !.files = WriteFile(@, WpContent, <<>>)]

\* Variant: subprocess.run with check=True, a non-zero exit raises.
enable_wordpress_site_checked ==
    /\ pc = "enable"
    /\ \E r \in ComposeOutcomes(fs[site]) :
        /\ IF Raised(r) \/ r = "nonzero"
           THEN /\ Log(<<Ran("docker-compose up -d", r)>>)
                /\ End("uncaught")
           ELSE /\ Log(<<Ran("docker-compose up -d", r), Said("enabled", site)>>)
                /\ End("normal")
        /\ IF r = "zero"
           THEN /\ up' = [up EXCEPT ![site] = TRUE]
                /\ fs' = [fs EXCEPT ![site] = AfterUp(@)]
           ELSE UNCHANGED <<up, fs>>
    /\ UNCHANGED <<hosts, isWindows, site, action, runs, hosts0, dir0,
                   reached, appended, snap>>

enable_wordpress_site ==
    /\ pc = "enable"
    /\ \E r \in ComposeOutcomes(fs[site]) :
        /\ IF Raised(r)
           THEN /\ Log(<<Ran("docker-compose up -d", r)>>)
                /\ End("uncaught")
           ELSE /\ Log(<<Ran("docker-compose up -d", r), Said("enabled", site)>>)
                /\ End("normal")
        /\ IF r = "zero"
           THEN /\ up' = [up EXCEPT ![site] = TRUE]
                /\ fs' = [fs EXCEPT ![site] = AfterUp(@)]
           ELSE UNCHANGED <<up, fs>>
    /\ UNCHANGED <<hosts, isWindows, site, action, runs, hosts0, dir0,
                   reached, appended, snap>>

disable_wordpress_site ==
    /\ pc = "disable"
    /\ \E r \in ComposeOutcomes(fs[site]) :
        /\ IF Raised(r)
           THEN /\ Log(<<Ran("docker-compose down", r)>>)
                /\ End("uncaught")
           ELSE /\ Log(<<Ran("docker-compose down", r), Said("disabled", site)>>)
                /\ End("normal")
        /\ up' = IF r = "zero" THEN [up EXCEPT ![site] = FALSE] ELSE up
    /\ UNCHANGED <<fs, hosts, isWindows, site, action, runs, hosts0, dir0,
                   reached, appended, snap>>

\* delete_wordpress_site, first statement: the down runs outside the try.
delete_down ==
    /\ pc = "delete_down"
    /\ \E r \in ComposeOutcomes(fs[site]) :
        /\ Log(<<Ran("docker-compose down", r)>>)
        /\ IF Raised(r)
           THEN End("uncaught")
           ELSE pc' = "delete_rmtree" /\ term' = term
        /\ up' = IF r = "zero" THEN [up EXCEPT ![site] = FALSE] ELSE up
    /\ UNCHANGED <<fs, hosts, isWindows, site, action, runs, hosts0, dir0,
                   reached, appended, snap>>

\* delete_wordpress_site, the try block: rmtree, FileNotFoundError caught.
delete_rmtree ==
    /\ pc = "delete_rmtree"
    /\ IF fs[site].exists
       THEN /\ fs' = [fs EXCEPT ![site] = AbsentDir]
            /\ Log(<<Did("rmtree", site), Said("deleted", site)>>)
       ELSE /\ fs' = fs
            /\ Log(<<Said("does_not_exist", site)>>)
    /\ End("normal")
    /\ UNCHANGED <<hosts, up, isWindows, site, action, runs, hosts0, dir0,
                   reached, appended, snap>>

Next ==
    \/ Main
    \/ check_dependencies
    \/ create_wordpress_site
    \/ add_host_entry_unix
    \/ add_host_entry_windows
    \/ create_finish
    \/ main_create_tail
    \/ enable_wordpress_site
    \/ disable_wordpress_site
    \/ delete_down
    \/ delete_rmtree

Spec == Init /\ [][Next]_vars
----------------------------------------------------------------------------
\* Properties.

\* The last invocation has ended.
Ended == pc = "idle" /\ runs > 0

Lifecycle == {"enable", "disable", "delete"}

\* The tokens that follow a server_name directive in a text.
ServerNames(text) ==
    {text[i + 1] : i \in {j \in 1..(Len(text) - 1) : text[j] = "server_name"}}

HasFile(d, name) == d.exists /\ name \in DOMAIN d.files

\* C1: delete of a site whose directory does not exist reports that the site
\* does not exist and completes normally, with no uncaught error at any step.
C1_DeleteAbsentReports ==
    (Ended /\ action = "delete" /\ ~dir0.exists)
        => (term = "normal" /\ Has(log, Said("does_not_exist", site)))

\* C2: in create's dependency check, a version query that exits non-zero or
\* cannot be launched makes the program print the diagnostic naming that tool
\* and exit with a non-zero status, with no directory, file or hosts entry
\* created.
C2_DependencyFailureDiagnosed ==
    \A r \in {"nonzero", "missing"} :
        /\ (action = "create" /\ Has(log, Ran("docker --version", r)))
              => /\ Has(log, Said("docker_not_installed", ""))
                 /\ term = "exit1"
                 /\ fs[site] = dir0
                 /\ hosts = hosts0
        /\ (action = "create" /\ Has(log, Ran("docker-compose --version", r)))
              => /\ Has(log, Said("compose_not_installed", ""))
                 /\ term = "exit1"
                 /\ fs[site] = dir0
                 /\ hosts = hosts0

CreateCompleted == Ended /\ action = "create" /\ term = "normal"

\* C3 as stated: after a completed create the directory holds exactly the two
\* files and each of them carries the site name as its server name.
C3_ExactlyTwoFilesBothNamed ==
    CreateCompleted
        => /\ DOMAIN fs[site].files = {ComposeName, NginxName}
           /\ site \in ServerNames(fs[site].files[ComposeName])
           /\ site \in ServerNames(fs[site].files[NginxName])

\* C3, amended: after a completed create the directory holds the two files
\* next to whatever it held before (exactly the two when it was absent or
\* empty); nginx.conf has the site name, and nothing else, as server_name;
\* docker-compose.yml is the same text for every site and has no server name.
C3_TwoFilesNginxNamed ==
    CreateCompleted
        => /\ fs[site].exists
           /\ DOMAIN fs[site].files
                = (DOMAIN dir0.files) \cup {ComposeName, NginxName}
           /\ \A n \in (DOMAIN dir0.files) \ {ComposeName, NginxName} :
                 fs[site].files[n] = dir0.files[n]
           /\ ServerNames(fs[site].files[NginxName]) = {site}
           /\ ServerNames(fs[site].files[ComposeName]) = {}
           /\ \A s \in Sites : fs[site].files[ComposeName] = ComposeText(s)

C3_Witness ==
    /\ CreateCompleted
    /\ WpContent \in DOMAIN fs[site].files
    /\ ServerNames(fs[site].files[NginxName]) = {site}

UpDown(a) == IF a = "enable" THEN "docker-compose up -d" ELSE "docker-compose down"
Success(a) == IF a = "enable" THEN "enabled" ELSE "disabled"

\* C4 as stated: enable and disable end with their success message and
\* complete normally in every state, directory present or absent.
C4_AlwaysSuccess ==
    (Ended /\ action \in {"enable", "disable"})
        => (term = "normal" /\ Has(log, Said(Success(action), site)))

\* C4, amended: enable and disable print their success message and complete
\* normally whenever docker-compose was started, whatever its exit status and
\* whether or not the composition file exists; when the site directory is
\* absent or docker-compose cannot be launched, the run ends with an uncaught
\* FileNotFoundError and no success message.
C4_SuccessIffLaunched ==
    (Ended /\ action \in {"enable", "disable"})
        => /\ (\E r \in {"zero", "nonzero"} : Has(log, Ran(UpDown(action), r)))
                => (term = "normal" /\ Has(log, Said(Success(action), site)))
           /\ (\E r \in {"no_cwd", "no_exe"} : Has(log, Ran(UpDown(action), r)))
                => (term = "uncaught" /\ ~Has(log, Said(Success(action), site)))
           /\ ~dir0.exists => Has(log, Ran(UpDown(action), "no_cwd"))
           /\ Len(log) >= 1

C4_Witness ==
    /\ Ended
    /\ action = "enable"
    /\ dir0.exists
    /\ ~HasFile(dir0, ComposeName)
    /\ Has(log, Ran("docker-compose up -d", "nonzero"))
    /\ Has(log, Said("enabled", site))
    /\ term = "normal"

\* C5 as stated: off Windows, the hosts lines of a site number the create
\* calls for it that reached host registration.
C5_LinesEqualReached ==
    ~isWindows => \A s \in Sites : Count(hosts, HostsLine(s)) = reached[s]

\* C5, amended: off Windows, the hosts lines of a site number the create calls
\* for it whose append succeeded (one line each, duplicates kept), and enable,
\* disable and delete leave the hosts file as it was.
C5_LinesEqualAppended ==
    ~isWindows
        => /\ \A s \in Sites : Count(hosts, HostsLine(s)) = appended[s]
           /\ action \in Lifecycle => hosts = hosts0

C5_Witness ==
    /\ ~isWindows
    /\ Ended
    /\ action = "delete"
    /\ site = "foo"
    /\ term = "normal"
    /\ Count(hosts, HostsLine("foo")) = 2

\* C6: delete of an existing site runs down and then removes the directory,
\* which stays absent; an enable that finds the directory absent starts no
\* containers and does not recreate it.
C6_DeleteRemovesDirectory ==
    /\ (Ended /\ action = "delete" /\ dir0.exists)
          => /\ ~fs[site].exists
             /\ Len(log) = 3
             /\ log[1][1] = "run"
             /\ log[2] = Did("rmtree", site)
    /\ (Ended /\ action = "enable" /\ ~dir0.exists)
          => (~fs[site].exists /\ ~Has(log, Ran("docker-compose up -d", "zero")))

\* The step of create an event belongs to.
Phase(e) ==
    CASE e[1] = "run" -> 1
      [] e[1] = "print" /\ e[2] \in {"docker_not_installed", "compose_not_installed"} -> 1
      [] e[1] = "do" /\ e[2] \in {"makedirs", "write"} -> 2
      [] e[1] = "do" /\ e[2] \in {"hosts_append", "hosts_open_failed", "not_admin",
                                  "hosts_error_caught"} -> 3
      [] e[1] = "print" /\ e[2] \in {"needs_admin", "hosts_entry_added", "error"} -> 3
      [] OTHER -> 4

InPhase(n) == \E i \in 1..Len(log) : Phase(log[i]) = n

LifecycleEvent(e) ==
    \/ e[1] = "run" /\ e[2] \in {"docker-compose up -d", "docker-compose down"}
    \/ e[1] = "do" /\ e[2] = "rmtree"
    \/ e[1] = "print" /\ e[2] \in {"enabled", "disabled", "deleted", "does_not_exist"}

\* C7: create runs dependency check, materialization, host registration and
\* browser launch in that order, each after the previous one completed;
\* enable, disable and delete run the lifecycle driver only: no dependency
\* check, no file written under the site directory, no hosts append, no
\* browser.
C7_DispatchOrder ==
    /\ action = "create" /\ runs > 0
          => /\ \A i, j \in 1..Len(log) : i < j => Phase(log[i]) <= Phase(log[j])
             /\ InPhase(2)
                   => /\ Has(log, Ran("docker --version", "ok"))
                      /\ Has(log, Ran("docker-compose --version", "ok"))
             /\ InPhase(3)
                   => /\ Has(log, Did("makedirs", site))
                      /\ Has(log, Did("write", ComposeName))
                      /\ Has(log, Did("write", NginxName))
                      /\ HasFile(fs[site], ComposeName)
                      /\ HasFile(fs[site], NginxName)
             /\ InPhase(4)
                   => \/ Has(log, Did("hosts_append", site))
                      \/ Has(log, Did("hosts_error_caught", site))
             /\ (Ended /\ term = "normal") => Has(log, Did("browser", site))
    /\ action \in Lifecycle /\ runs > 0
          => /\ \A i \in 1..Len(log) : LifecycleEvent(log[i])
             /\ hosts = hosts0
             /\ fs[site].exists => Generated(fs[site]) = Generated(dir0)

C7_Witness ==
    /\ CreateCompleted
    /\ Has(log, Did("hosts_append", site))
    /\ Has(log, Did("browser", site))

\* C8: materialization is idempotent: on an existing directory it raises no
\* error and overwrites both files, so after any create the generated files
\* are those a single create leaves, whatever the files held before.
C8_MaterializeIdempotent ==
    /\ (action = "create" /\ Has(log, Did("write", NginxName)))
          => /\ DOMAIN snap[site] = {ComposeName, NginxName}
             /\ Generated(fs[site]) = snap[site]
             /\ snap[site] = Generated(Materialized(AbsentDir, site))
    /\ (action = "create" /\ Has(log, Ran("docker-compose --version", "ok"))
           /\ pc # "create")
          => Has(log, Did("write", NginxName))

C8_Witness ==
    /\ action = "create"
    /\ Has(log, Did("write", NginxName))
    /\ HasFile(dir0, ComposeName)
    /\ HasFile(dir0, NginxName)
    /\ Generated(dir0) = snap[site]
    /\ runs >= 2

\* C9: on Windows, without privileges the diagnostic is printed and the
\* process exits non-zero with no hosts line added; with them, an error of the
\* registry lookup or the append is caught and printed, and create goes on to
\* its success message and the browser although no hosts line was added.
C9_WindowsHostEntry ==
    (isWindows /\ action = "create")
        => /\ Has(log, Did("not_admin", site))
                => /\ Has(log, Said("needs_admin", ""))
                   /\ pc = "idle"
                   /\ term = "exit1"
                   /\ hosts = hosts0
           /\ Has(log, Did("hosts_error_caught", site))
                => /\ Has(log, Said("error", ""))
                   /\ hosts = hosts0
                   /\ term \in {"running", "normal"}
                   /\ pc \in {"created", "main_create_tail", "idle"}
                   /\ pc # "created" => /\ Has(log, Said("created", site))
                                        /\ Has(log, Did("browser", site))

C9_Witness ==
    /\ isWindows
    /\ CreateCompleted
    /\ Has(log, Did("hosts_error_caught", site))
    /\ Has(log, Did("browser", site))
    /\ hosts = hosts0

HostEntryEndedRun ==
    /\ Ended
    /\ action = "create"
    /\ term \in {"uncaught", "exit1"}
    /\ Has(log, Did("hosts_open_failed", site)) \/ Has(log, Did("not_admin", site))

\* C10: create has no rollback: when host registration ends the process, the
\* directory and both generated files are on disk, no hosts line was added,
\* and neither the success message nor the browser launch happened.
C10_NoRollback ==
    HostEntryEndedRun
        => /\ HasFile(fs[site], ComposeName)
           /\ HasFile(fs[site], NginxName)
           /\ Generated(fs[site]) = Generated(Materialized(dir0, site))
           /\ hosts = hosts0
           /\ ~Has(log, Said("created", site))
           /\ ~Has(log, Did("browser", site))

C10_Witness ==
    /\ HostEntryEndedRun
    /\ ~isWindows
    /\ ~dir0.exists
    /\ fs[site].exists
    /\ hosts = hosts0
====
